---- MODULE Spec2Model ----
(***************************************************************************)
(* HTML to Image API: the shared Chromium engine held by HTMLRenderer      *)
(* (app/renderer.py), the request handlers generate_image and              *)
(* generate_preview (app/main.py), S3Service.upload_bytes                  *)
(* (app/s3_service.py) and the dimension validation of the renderer.       *)
(*                                                                         *)
(* Every handler is an asyncio coroutine on one event loop: the code       *)
(* between two awaits that really suspend runs atomically, and each such   *)
(* segment is one action here.  Awaited calls into Playwright either       *)
(* return or raise; both outcomes are actions.                             *)
(***************************************************************************)
EXTENDS Integers, Sequences, FiniteSets, TLC

(***************************************************************************)
(* Bounds of the model.                                                    *)
(***************************************************************************)
MaxLaunch == 2      \* launcher starts / engine launches explored
MaxRequests == 2    \* requests received, each handled by its own coroutine
MaxClose == 2       \* invocations of HTMLRenderer.close explored
DimSlack == 2       \* how far beyond each limit the sampled dimensions go
MaxDocLen == 3      \* tokens in the HTML given to _build_html_document

(***************************************************************************)
(* Program constants.                                                      *)
(***************************************************************************)
max_width == 4096
max_height == 4096
min_dimension == 1
default_width == 1024
default_height == 768
default_scale == 10     \* 1.0; scales are counted in tenths
scale_ge == 1           \* 0.1
scale_le == 30          \* 3.0

Procs == 1..MaxRequests  \* request p is the p-th to arrive
None == "None"      \* Python None for string-valued fields
NoHandle == 0       \* Python None for the engine and launcher handles

ResponseFormat == {"url", "base64", "both"}
Endpoints == {"generate", "preview"}

VARIABLES
    _browser,       \* HTMLRenderer._browser: index into engines, or NoHandle
    _playwright,    \* HTMLRenderer._playwright: index into launchers, or NoHandle
    engines,        \* every Chromium launched so far: "connected" | "disconnected" | "closed"
    launchers,      \* every Playwright driver started so far: "running" | "stopped"
    pc,             \* where each request coroutine is suspended
    endpoint,       \* which handler the request runs
    response_format,\* request.response_format
    browser,        \* the local `browser` of render_to_image
    page,           \* the page of the request: "none" | "open" | "closed"
    events,         \* what the request has called so far, in order
    result,         \* the response the caller receives
    bucket_name,    \* aws_config.bucket_name (and S3Service._bucket_name)
    _client,        \* S3Service._client: None or "client"
    closePc,        \* where HTMLRenderer.close is suspended
    closeTarget,    \* the handle close() is awaiting on
    closeCalls,     \* invocations of close() so far
    dims,           \* the (width, height) pair given to _validate_dimensions
    validated,      \* the pair it returned, or None
    warned,         \* whether that call logged the adjustment warning
    revalidated,    \* what a second call, on the validated pair, returned
    entry,          \* how the rendering is asked for: "endpoint" | "direct"
    arg_width,      \* the width supplied: <<n>>, or <<>> when it is missing
    arg_height,     \* the height supplied, likewise
    arg_scale,      \* the scale supplied, in tenths, likewise
    schema,         \* ImageGenerateRequest validation: "unchecked" | "accepted" | "rejected"
    viewport,       \* what render_to_image hands to browser.new_page, or <<>>
    arg_html,       \* the html_content given to _build_html_document
    arg_css,        \* the css_content given to it: None, "" or a stylesheet
    full_html,      \* the document it returned, or <<>> before the call
    uploaded,       \* the last direct call of upload_bytes: what it did, or <<>>
    handler,        \* the handler in which two runs of one request fail
    exc_type,       \* what is raised inside its try: "HTTPException" | "Exception"
    exc_text,       \* the text of the exception, in each of the two runs
    payload         \* the error payload each run answers, or NoResult

rendererVars == <<_browser, _playwright, engines, launchers>>
requestVars == <<pc, endpoint, response_format, browser, page, events, result>>
s3Vars == <<bucket_name, _client>>
closeVars == <<closePc, closeTarget, closeCalls>>
dimVars == <<dims, validated, warned, revalidated>>
paramVars == <<entry, arg_width, arg_height, arg_scale, schema, viewport>>
docVars == <<arg_html, arg_css, full_html>>
errVars == <<handler, exc_type, exc_text, payload>>
callVars == <<paramVars, docVars, uploaded, errVars>>
vars == <<rendererVars, requestVars, s3Vars, closeVars, dimVars, callVars>>

NoResult == [success |-> FALSE, status_code |-> 0, url |-> None, base64 |-> None,
             error |-> None, message |-> <<>>]


(***************************************************************************)
(* HTMLRenderer._get_browser, renderer.py:41-62.                           *)
(***************************************************************************)

\* line 49 without its condition: every acquisition launches
NeedsLaunchAlways == TRUE

\* line 49 without the is_connected() test: only an absent handle launches
NeedsLaunchNoneOnly == _browser = NoHandle

\* line 49: the cached handle is absent or reports not connected
NeedsLaunch ==
    \/ _browser = NoHandle
    \/ engines[_browser] # "connected"

\* the engine behind handle b answers calls
IsConnected(b) == b # NoHandle /\ engines[b] = "connected"

\* An exception leaves render_to_image (lines 232-234 log and re-raise) and is
\* caught by the handler: main.py:297-302 for generate_image, 358-363 for
\* generate_preview.  Both turn it into HTTPException(500) whose detail carries
\* str(e); http_exception_handler (main.py:96-107) copies the detail into the
\* payload.  Neither the page nor the renderer's handles are touched.
ErrorPrefix(p) ==
    IF endpoint[p] = "preview" THEN "Erro ao gerar preview: " ELSE "Erro ao gerar imagem: "

HttpError(detail) ==
    [success |-> FALSE, status_code |-> 500, url |-> None, base64 |-> None,
     error |-> "HTTP_ERROR", message |-> detail]

\* an error path that also drops the cached engine
RenderRaisesResetsEngine(p, exc) ==
    /\ pc' = [pc EXCEPT ![p] = "done"]
    /\ result' = [result EXCEPT ![p] = HttpError(<<ErrorPrefix(p), exc>>)]
    /\ _browser' = NoHandle
    /\ UNCHANGED <<_playwright, engines, launchers, page, browser, events>>

RenderRaises(p, exc) ==
    /\ pc' = [pc EXCEPT ![p] = "done"]
    /\ result' = [result EXCEPT ![p] = HttpError(<<ErrorPrefix(p), exc>>)]
    /\ UNCHANGED <<rendererVars, page, browser, events>>

\* a handler that looks at the bucket before it renders
RequestChecksBucketFirst(p, ep, rf) ==
    /\ pc[p] = "idle"
    /\ \A q \in Procs : q < p => pc[q] # "idle"
    /\ endpoint' = [endpoint EXCEPT ![p] = ep]
    /\ response_format' = [response_format EXCEPT ![p] = IF ep = "preview" THEN "base64" ELSE rf]
    /\ events' = [events EXCEPT ![p] = <<"bucket_check", "render_to_image">>]
    /\ result' = [result EXCEPT ![p] = NoResult]
    /\ page' = [page EXCEPT ![p] = "none"]
    /\ IF NeedsLaunch
       THEN /\ pc' = [pc EXCEPT ![p] = "playwright_start"]
            /\ browser' = [browser EXCEPT ![p] = NoHandle]
       ELSE /\ pc' = [pc EXCEPT ![p] = "new_page"]
            /\ browser' = [browser EXCEPT ![p] = _browser]
    /\ UNCHANGED <<rendererVars, s3Vars, closeVars, dimVars, callVars>>

\* A request arrives.  The handler runs without suspending through
\* render_to_image's defaults and validation into _get_browser: with a healthy
\* cached handle it goes straight on to `await browser.new_page(...)`, otherwise
\* it suspends in `await async_playwright().start()`.
Request(p, ep, rf) ==
    /\ pc[p] = "idle"
    /\ \A q \in Procs : q < p => pc[q] # "idle"
    /\ endpoint' = [endpoint EXCEPT ![p] = ep]
    /\ response_format' = [response_format EXCEPT ![p] = IF ep = "preview" THEN "base64" ELSE rf]
    /\ events' = [events EXCEPT ![p] = <<"render_to_image">>]
    /\ result' = [result EXCEPT ![p] = NoResult]
    /\ page' = [page EXCEPT ![p] = "none"]
    /\ IF NeedsLaunch
       THEN /\ pc' = [pc EXCEPT ![p] = "playwright_start"]
            /\ browser' = [browser EXCEPT ![p] = NoHandle]
       ELSE /\ pc' = [pc EXCEPT ![p] = "new_page"]
            /\ browser' = [browser EXCEPT ![p] = _browser]
    /\ UNCHANGED <<rendererVars, s3Vars, closeVars, dimVars, callVars>>

\* line 50: async_playwright().start() returns; the handle is stored and
\* chromium.launch is awaited (line 51)
PlaywrightStarted(p) ==
    /\ pc[p] = "playwright_start"
    /\ Len(launchers) < MaxLaunch
    /\ launchers' = Append(launchers, "running")
    /\ _playwright' = Len(launchers) + 1
    /\ pc' = [pc EXCEPT ![p] = "launch"]
    /\ UNCHANGED <<_browser, engines, endpoint, response_format, browser, page, events,
                   result, s3Vars, closeVars, dimVars, callVars>>

\* line 50 raises (driver missing, cannot spawn)
PlaywrightStartFails(p) ==
    /\ pc[p] = "playwright_start"
    /\ RenderRaises(p, "DriverError")
    /\ UNCHANGED <<endpoint, response_format, s3Vars, closeVars, dimVars, callVars>>

\* lines 51-62: chromium.launch returns; the handle is stored and returned,
\* and render_to_image awaits browser.new_page (line 198)
Launched(p) ==
    /\ pc[p] = "launch"
    /\ Len(engines) < MaxLaunch
    /\ engines' = Append(engines, "connected")
    /\ _browser' = Len(engines) + 1
    /\ browser' = [browser EXCEPT ![p] = Len(engines) + 1]
    /\ pc' = [pc EXCEPT ![p] = "new_page"]
    /\ UNCHANGED <<_playwright, launchers, endpoint, response_format, page, events,
                   result, s3Vars, closeVars, dimVars, callVars>>

\* line 51 raises (no executable, launch timeout); _playwright keeps the
\* driver started at line 50
LaunchFails(p) ==
    /\ pc[p] = "launch"
    /\ RenderRaises(p, "LaunchError")
    /\ UNCHANGED <<endpoint, response_format, s3Vars, closeVars, dimVars, callVars>>

(***************************************************************************)
(* HTMLRenderer.render_to_image, renderer.py:194-234.                      *)
(***************************************************************************)

\* what a call on a dead engine raises, and what a live one may raise
Failure(p) == IF IsConnected(browser[p]) THEN "TimeoutError" ELSE "TargetClosedError"

\* line 198 returns: the page exists; the document is composed (line 204) and
\* page.set_content is awaited (line 207)
NewPage(p) ==
    /\ pc[p] = "new_page"
    /\ IsConnected(browser[p])
    /\ page' = [page EXCEPT ![p] = "open"]
    /\ events' = [events EXCEPT ![p] = Append(@, "new_page")]
    /\ pc' = [pc EXCEPT ![p] = "set_content"]
    /\ UNCHANGED <<rendererVars, endpoint, response_format, browser, result,
                   s3Vars, closeVars, dimVars, callVars>>

\* line 198 raises: no page was created
NewPageFails(p) ==
    /\ pc[p] = "new_page"
    /\ RenderRaises(p, Failure(p))
    /\ UNCHANGED <<endpoint, response_format, s3Vars, closeVars, dimVars, callVars>>

\* line 207 returns at network idle; asyncio.sleep(0.1) (line 210), which reads
\* and writes nothing and cannot fail, passes and page.screenshot is awaited
\* (line 221)
SetContent(p) ==
    /\ pc[p] = "set_content"
    /\ IsConnected(browser[p])
    /\ pc' = [pc EXCEPT ![p] = "screenshot"]
    /\ UNCHANGED <<rendererVars, endpoint, response_format, browser, page, events, result,
                   s3Vars, closeVars, dimVars, callVars>>

\* line 207 raises: the load never reached network idle, or the engine died
SetContentFails(p) ==
    /\ pc[p] = "set_content"
    /\ RenderRaises(p, Failure(p))
    /\ UNCHANGED <<endpoint, response_format, s3Vars, closeVars, dimVars, callVars>>

\* line 221 returns the PNG bytes; page.close is awaited (line 224)
Screenshot(p) ==
    /\ pc[p] = "screenshot"
    /\ IsConnected(browser[p])
    /\ events' = [events EXCEPT ![p] = Append(@, "page_close")]
    /\ pc' = [pc EXCEPT ![p] = "page_close"]
    /\ UNCHANGED <<rendererVars, endpoint, response_format, browser, page, result,
                   s3Vars, closeVars, dimVars, callVars>>

\* line 221 raises
ScreenshotFails(p) ==
    /\ pc[p] = "screenshot"
    /\ RenderRaises(p, Failure(p))
    /\ UNCHANGED <<endpoint, response_format, s3Vars, closeVars, dimVars, callVars>>

(***************************************************************************)
(* S3Service.upload_bytes, s3_service.py:109-187.  It is declared async    *)
(* but awaits nothing: the boto3 call blocks, so the whole upload runs     *)
(* inside the caller's segment.                                            *)
(***************************************************************************)

\* what client.put_object may do: return, or raise a ClientError or another
\* botocore error
PutOutcomes == {"ok", "ClientError", "EndpointConnectionError"}

\* _get_public_url, lines 92-107, for the key _generate_key made
PublicUrl == "https://bucket.s3.region.amazonaws.com/key"

\* upload_bytes without the test of lines 140-144
upload_bytes_unchecked(put) ==
    IF put = "ok"
    THEN [raised |-> None, url |-> PublicUrl,
          calls |-> <<"get_client", "put_object", "ok">>, client |-> "client"]
    ELSE [raised |-> put, url |-> None,
          calls |-> <<"get_client", "put_object", put>>, client |-> "client"]

\* upload_bytes trying put_object a second time after a failure
upload_bytes_retrying(put) ==
    IF bucket_name = ""
    THEN [raised |-> "ValueError", url |-> None, calls |-> <<>>, client |-> _client]
    ELSE IF put = "ok"
    THEN [raised |-> None, url |-> PublicUrl,
          calls |-> <<"get_client", "put_object", "ok">>, client |-> "client"]
    ELSE [raised |-> None, url |-> PublicUrl,
          calls |-> <<"get_client", "put_object", put, "put_object", "ok">>,
          client |-> "client"]

\* raised: the exception leaving upload_bytes, or None; url: the "url" of the
\* returned record; calls: the storage calls made, in order, put_object
\* followed by what it did; client: _client afterwards
upload_bytes(put) ==
    IF bucket_name = ""
    THEN [raised |-> "ValueError", url |-> None, calls |-> <<>>, client |-> _client]
    ELSE IF put = "ok"
    THEN [raised |-> None, url |-> PublicUrl,
          calls |-> <<"get_client", "put_object", "ok">>, client |-> "client"]
    ELSE [raised |-> put, url |-> None,
          calls |-> <<"get_client", "put_object", put>>, client |-> "client"]

\* s3_service.upload_bytes(...) awaited on its own, while no request runs
UploadBytes ==
    /\ \A p \in Procs : pc[p] \in {"idle", "returned"}
    /\ closePc = "idle"
    /\ \E put \in PutOutcomes :
         LET up == upload_bytes(put) IN
         /\ uploaded' = [raised |-> up.raised, url |-> up.url, calls |-> up.calls,
                         client_before |-> _client, client_after |-> up.client]
         /\ _client' = up.client
    /\ UNCHANGED <<rendererVars, requestVars, bucket_name, closeVars, dimVars,
                   paramVars, docVars, errVars>>

(***************************************************************************)
(* generate_image after render_to_image returned, main.py:251-302, and     *)
(* generate_preview, main.py:343-356.                                      *)
(***************************************************************************)

InlineData == "data:image/png;base64"

Success(url, b64) ==
    [success |-> TRUE, status_code |-> 200, url |-> url, base64 |-> b64,
     error |-> None, message |-> <<>>]

NotConfiguredDetail == "Bucket S3 nao configurado. Configure a variavel AWS_S3_BUCKET"

\* lines 263-266 without the test of the format
Base64PartAlways(rf) == InlineData

\* lines 263-266
Base64Part(rf) == IF rf \in {"base64", "both"} THEN InlineData ELSE None

Base64Calls(rf) == IF rf \in {"base64", "both"} THEN <<"b64encode">> ELSE <<>>

\* a handler that answers a failed storage step with what it has
generate_image_partial(rf, put) ==
    IF rf \in {"url", "both"}
    THEN LET up == upload_bytes(put) IN
         [result |-> Success(up.url, Base64Part(rf)),
          calls |-> Base64Calls(rf) \o <<"bucket_check", "upload_bytes">> \o up.calls,
          client |-> up.client]
    ELSE [result |-> Success(None, Base64Part(rf)),
          calls |-> Base64Calls(rf),
          client |-> _client]

\* lines 251-302: the response, the calls made and _client afterwards
generate_image(rf, put) ==
    IF rf \in {"url", "both"}
    THEN IF bucket_name = ""
         THEN \* lines 270-274, re-raised at 295-296
              [result |-> HttpError(<<NotConfiguredDetail>>),
               calls |-> Base64Calls(rf) \o <<"bucket_check">>,
               client |-> _client]
         ELSE LET up == upload_bytes(put) IN
              IF up.raised # None
              THEN \* lines 297-302
                   [result |-> HttpError(<<"Erro ao gerar imagem: ", up.raised>>),
                    calls |-> Base64Calls(rf) \o <<"bucket_check", "upload_bytes">> \o up.calls,
                    client |-> up.client]
              ELSE \* lines 287-293
                   [result |-> Success(up.url, Base64Part(rf)),
                    calls |-> Base64Calls(rf) \o <<"bucket_check", "upload_bytes">> \o up.calls,
                    client |-> up.client]
    ELSE [result |-> Success(None, Base64Part(rf)),
          calls |-> Base64Calls(rf),
          client |-> _client]

\* a preview that delivers like generate_image in mode "both"
generate_preview_uploads(rf, put) == generate_image("both", put)

\* lines 343-356
generate_preview(rf, put) ==
    [result |-> Success(None, InlineData), calls |-> <<"b64encode">>, client |-> _client]

Handler(p, put) ==
    IF endpoint[p] = "preview"
    THEN generate_preview(response_format[p], put)
    ELSE generate_image(response_format[p], put)

\* renderer.py:224-230 and the rest of the handler: page.close returns (on an
\* engine that died meanwhile Playwright reports the page closed and does not
\* raise), the bytes go back to the handler, which encodes and uploads as the
\* format asks and answers, all without suspending again
PageClosed(p) ==
    /\ pc[p] = "page_close"
    /\ page' = [page EXCEPT ![p] = "closed"]
    /\ \E put \in PutOutcomes :
         LET out == Handler(p, put) IN
         /\ result' = [result EXCEPT ![p] = out.result]
         /\ events' = [events EXCEPT ![p] = @ \o <<"render_done">> \o out.calls]
         /\ _client' = out.client
    /\ pc' = [pc EXCEPT ![p] = "done"]
    /\ UNCHANGED <<rendererVars, endpoint, response_format, browser, bucket_name,
                   closeVars, dimVars, callVars>>

\* the response is sent and the coroutine ends: its locals are gone; a page it
\* left open stays open
Respond(p) ==
    /\ pc[p] = "done"
    /\ pc' = [pc EXCEPT ![p] = "returned"]
    /\ endpoint' = [endpoint EXCEPT ![p] = "generate"]
    /\ response_format' = [response_format EXCEPT ![p] = "url"]
    /\ browser' = [browser EXCEPT ![p] = NoHandle]
    /\ events' = [events EXCEPT ![p] = <<>>]
    /\ result' = [result EXCEPT ![p] = NoResult]
    /\ UNCHANGED <<rendererVars, page, s3Vars, closeVars, dimVars, callVars>>

(***************************************************************************)
(* HTMLRenderer.close, renderer.py:64-75, called by lifespan at shutdown   *)
(* (main.py:56).  It suspends in browser.close() and in playwright.stop(). *)
(***************************************************************************)

\* lines 72-75 left out: close() returns without stopping the launcher
CloseSkipsLauncher ==
    /\ closePc' = "idle"
    /\ closeTarget' = NoHandle

\* lines 72-75, entered from line 69 or after line 71
CloseLauncherOrReturn ==
    IF _playwright # NoHandle
    THEN /\ closePc' = "playwright_stop"
         /\ closeTarget' = _playwright
    ELSE /\ closePc' = "idle"
         /\ closeTarget' = NoHandle

\* line 69: close() is called
Close ==
    /\ closePc = "idle"
    /\ closeCalls < MaxClose
    /\ closeCalls' = closeCalls + 1
    /\ IF _browser # NoHandle
       THEN /\ closePc' = "browser_close"
            /\ closeTarget' = _browser
       ELSE CloseLauncherOrReturn
    /\ UNCHANGED <<rendererVars, requestVars, s3Vars, dimVars, callVars>>

\* lines 70-72: browser.close() returns; the handle is cleared
BrowserClosed ==
    /\ closePc = "browser_close"
    /\ engines' = [engines EXCEPT ![closeTarget] = "closed"]
    /\ _browser' = NoHandle
    /\ CloseLauncherOrReturn
    /\ UNCHANGED <<_playwright, launchers, closeCalls, requestVars, s3Vars, dimVars, callVars>>

\* lines 73-75: playwright.stop() returns; the handle is cleared
PlaywrightStopped ==
    /\ closePc = "playwright_stop"
    /\ launchers' = [launchers EXCEPT ![closeTarget] = "stopped"]
    /\ _playwright' = NoHandle
    /\ closePc' = "idle"
    /\ closeTarget' = NoHandle
    /\ UNCHANGED <<_browser, engines, closeCalls, requestVars, s3Vars, dimVars, callVars>>

\* the environment: a Chromium process crashes or is killed
Disconnect(b) ==
    /\ engines[b] = "connected"
    /\ engines' = [engines EXCEPT ![b] = "disconnected"]
    /\ UNCHANGED <<_browser, _playwright, launchers, requestVars, s3Vars, closeVars, dimVars, callVars>>

(***************************************************************************)
(* HTMLRenderer._validate_dimensions, renderer.py:77-101.                  *)
(***************************************************************************)

Min(a, b) == IF a < b THEN a ELSE b
Max(a, b) == IF a > b THEN a ELSE b

\* lines 92-93 without max(1, ...), and line 95 testing the width alone
_validate_dimensions_no_floor(width, height) ==
    LET validated_width == Min(width, max_width)
        validated_height == Min(height, max_height)
    IN  [width |-> validated_width,
         height |-> validated_height,
         warning |-> validated_width # width]

\* lines 92-101: the pair returned and whether the warning was logged
_validate_dimensions(width, height) ==
    LET validated_width == Max(min_dimension, Min(width, max_width))
        validated_height == Max(min_dimension, Min(height, max_height))
    IN  [width |-> validated_width,
         height |-> validated_height,
         warning |-> validated_width # width \/ validated_height # height]

\* the integers sampled around both ends of the range
WidthValues ==
    (min_dimension - DimSlack .. min_dimension + DimSlack)
        \cup (max_width - DimSlack .. max_width + DimSlack) \cup {default_width}
HeightValues ==
    (min_dimension - DimSlack .. min_dimension + DimSlack)
        \cup (max_height - DimSlack .. max_height + DimSlack) \cup {default_height}

\* _validate_dimensions is called on the pair in dims
Validate ==
    /\ validated = <<>>
    /\ LET v == _validate_dimensions(dims[1], dims[2]) IN
         /\ validated' = <<v.width, v.height>>
         /\ warned' = v.warning
    /\ UNCHANGED <<dims, revalidated, rendererVars, requestVars, s3Vars, closeVars, callVars>>

\* it is called again on the pair it returned
Revalidate ==
    /\ validated # <<>>
    /\ revalidated = <<>>
    /\ LET v == _validate_dimensions(validated[1], validated[2]) IN
         revalidated' = <<v.width, v.height, v.warning>>
    /\ UNCHANGED <<dims, validated, warned, rendererVars, requestVars, s3Vars, closeVars, callVars>>

(***************************************************************************)
(* The numeric parameters on their way to the engine: the request schema   *)
(* ImageGenerateRequest (models.py:47-64), the call in generate_image      *)
(* (main.py:241-249) and render_to_image up to browser.new_page            *)
(* (renderer.py:181-201).  A supplied value is <<n>>, a missing one <<>>.  *)
(***************************************************************************)

\* a Field without ge/le
FieldAcceptsAny(value, ge, le) == TRUE

\* Field(default=..., ge=..., le=...): a missing field takes the default, a
\* supplied one must lie within [ge, le]
FieldAccepts(value, ge, le) == value = <<>> \/ (ge <= value[1] /\ value[1] <= le)
FieldValue(value, default) == IF value = <<>> THEN default ELSE value[1]

\* models.py:47-64: the parsed request, or the refusal of the schema; the
\* defaults of the fields are the literals of config.py
ImageGenerateRequest(w, h, s) ==
    [valid |-> /\ FieldAccepts(w, min_dimension, max_width)
               /\ FieldAccepts(h, min_dimension, max_height)
               /\ FieldAccepts(s, scale_ge, scale_le),
     width |-> FieldValue(w, default_width),
     height |-> FieldValue(h, default_height),
     scale |-> FieldValue(s, default_scale)]

\* `value or default` where only None is replaced
OrDefaultNoneOnly(value, default) == IF value = <<>> THEN default ELSE value[1]

\* renderer.py:182-184, `value or default`: None and 0 are both falsy
OrDefault(value, default) == IF value = <<>> \/ value[1] = 0 THEN default ELSE value[1]

\* renderer.py:182-201: the viewport and device_scale_factor given to
\* browser.new_page, and whether _validate_dimensions logged its warning
render_to_image(w, h, s) ==
    LET v == _validate_dimensions(OrDefault(w, default_width), OrDefault(h, default_height))
    IN  [width |-> v.width, height |-> v.height,
         device_scale_factor |-> OrDefault(s, default_scale),
         warning |-> v.warning]

SuppliedWidths == {<<>>} \cup {<<n>> : n \in WidthValues}
SuppliedHeights == {<<>>} \cup {<<n>> : n \in HeightValues}
SuppliedScales ==
    {<<>>} \cup {<<n>> : n \in (scale_ge - DimSlack .. scale_ge + DimSlack)
                          \cup (scale_le - DimSlack .. scale_le + DimSlack)
                          \cup {default_scale}}

\* FastAPI parses the body into ImageGenerateRequest before generate_image
\* is entered; a refused body never reaches the handler
ValidateRequest ==
    /\ entry = "endpoint"
    /\ schema = "unchecked"
    /\ schema' = IF ImageGenerateRequest(arg_width, arg_height, arg_scale).valid
                 THEN "accepted" ELSE "rejected"
    /\ UNCHANGED <<entry, arg_width, arg_height, arg_scale, viewport, docVars, rendererVars,
                   requestVars, s3Vars, closeVars, dimVars, uploaded, errVars>>

\* main.py:241-249: the handler passes the fields of the parsed request
RenderFromHandler ==
    /\ entry = "endpoint"
    /\ schema = "accepted"
    /\ viewport = <<>>
    /\ LET request == ImageGenerateRequest(arg_width, arg_height, arg_scale) IN
         viewport' = render_to_image(<<request.width>>, <<request.height>>, <<request.scale>>)
    /\ UNCHANGED <<entry, arg_width, arg_height, arg_scale, schema, docVars, rendererVars,
                   requestVars, s3Vars, closeVars, dimVars, uploaded, errVars>>

\* render_to_image called with the supplied arguments as they are
RenderDirect ==
    /\ entry = "direct"
    /\ viewport = <<>>
    /\ viewport' = render_to_image(arg_width, arg_height, arg_scale)
    /\ UNCHANGED <<entry, arg_width, arg_height, arg_scale, schema, docVars, rendererVars,
                   requestVars, s3Vars, closeVars, dimVars, uploaded, errVars>>

(***************************************************************************)
(* HTMLRenderer._build_html_document, renderer.py:103-151.  A text is the  *)
(* sequence of its tokens: tags, and the runs of text between them; the    *)
(* white space the template puts between its tags is left out.  Every      *)
(* string the code searches for begins with "<" and holds no second one,   *)
(* so an occurrence lies within one tag.                                   *)
(***************************************************************************)

Tokens ==
    {"<!DOCTYPE html>", "<html>", "<HTML>", "<html lang='en'>", "<head>",
     "<head id='h'>", "</head>", "</HEAD>", "<style>", "<p>x</p>"}

Texts == UNION {[1..n -> Tokens] : n \in 0..MaxDocLen}
Stylesheets == {None, "", "a{}"}

\* str.lower() on one token, and on a text
LowerToken(t) ==
    CASE t = "<!DOCTYPE html>" -> "<!doctype html>"
      [] t = "<HTML>" -> "<html>"
      [] t = "</HEAD>" -> "</head>"
      [] OTHER -> t
lower(text) == [i \in DOMAIN text |-> LowerToken(text[i])]

\* the tokens in which the searched string occurs, letter case respected
TokensWith(needle) ==
    CASE needle = "<html" -> {"<html>", "<html lang='en'>"}
      [] needle = "<!doctype" -> {"<!doctype html>"}
      [] needle = "<head>" -> {"<head>"}
      [] needle = "</head>" -> {"</head>"}
      [] needle = "<html>" -> {"<html>"}

\* `needle in text`
In(needle, text) == \E i \in DOMAIN text : text[i] \in TokensWith(needle)

\* text.replace(old, new, 1) for an `old` that is a whole tag: the first
\* occurrence is replaced, a text without one is returned as it is
replace(text, old, new) ==
    IF In(old, text)
    THEN LET i == CHOOSE j \in DOMAIN text :
                    /\ text[j] \in TokensWith(old)
                    /\ \A k \in 1..(j - 1) : text[k] \notin TokensWith(old)
         IN  SubSeq(text, 1, i - 1) \o new \o SubSeq(text, i + 1, Len(text))
    ELSE text

\* Python truthiness of Optional[str]
Truthy(css_content) == css_content \notin {None, ""}

\* the template without {css_block}
SkeletonWithoutStyle(css_block, html_content) ==
    <<"<!DOCTYPE html>", "<html lang='pt-BR'>", "<head>", "<meta charset='UTF-8'>",
      "<meta name='viewport' content='width=device-width, initial-scale=1.0'>">>
      \o <<"</head>", "<body style='margin: 0; padding: 0;'>">>
      \o html_content \o <<"</body>", "</html>">>

\* lines 141-151: the template around a fragment
Skeleton(css_block, html_content) ==
    <<"<!DOCTYPE html>", "<html lang='pt-BR'>", "<head>", "<meta charset='UTF-8'>",
      "<meta name='viewport' content='width=device-width, initial-scale=1.0'>">>
      \o css_block \o <<"</head>", "<body style='margin: 0; padding: 0;'>">>
      \o html_content \o <<"</body>", "</html>">>

\* lines 118-151
_build_html_document(html_content, css_content) ==
    LET css_block == IF Truthy(css_content)
                     THEN <<"<style>", css_content, "</style>">>
                     ELSE <<>>
    IN  IF In("<html", lower(html_content)) \/ In("<!doctype", lower(html_content))
        THEN IF Truthy(css_content)
             THEN IF In("<head>", lower(html_content))
                  THEN replace(html_content, "</head>", css_block \o <<"</head>">>)
                  ELSE replace(html_content, "<html>",
                               <<"<html>", "<head>">> \o css_block \o <<"</head>">>)
             ELSE html_content
        ELSE Skeleton(css_block, html_content)

\* renderer.py:204
BuildDocument ==
    /\ full_html = <<>>
    /\ full_html' = _build_html_document(arg_html, arg_css)
    /\ UNCHANGED <<arg_html, arg_css, paramVars, rendererVars, requestVars, s3Vars,
                   closeVars, dimVars, uploaded, errVars>>

(***************************************************************************)
(* The outermost boundary of the handlers: the except clauses of           *)
(* generate_image (main.py:295-302) and generate_preview (main.py:358-363) *)
(* and the exception handlers of the application (main.py:96-122), for two *)
(* runs of one request that differ in the text of the exception only.      *)
(***************************************************************************)

Runs == {1, 2}

ErrorTexts ==
    {"Timeout 30000ms exceeded", "Executable doesn't exist at /root/.cache/ms-playwright",
     "An error occurred (AccessDenied) when calling the PutObject operation"}

\* What the caller receives when `e` is raised inside the try of the handler.
\* generate_image re-raises an HTTPException as it is (295-296) and wraps
\* anything else (297-302); generate_preview has the second clause only
\* (358-363).  Either way an HTTPException leaves the handler, so
\* http_exception_handler answers (96-107), never general_exception_handler.
ErrorPayload(ep, type, text) ==
    IF ep = "generate" /\ type = "HTTPException"
    THEN HttpError(<<text>>)
    ELSE HttpError(<<IF ep = "preview" THEN "Erro ao gerar preview: "
                     ELSE "Erro ao gerar imagem: ", text>>)

\* the exception of run r reaches the boundary
Catch(r) ==
    /\ payload[r] = NoResult
    /\ payload' = [payload EXCEPT ![r] = ErrorPayload(handler, exc_type, exc_text[r])]
    /\ UNCHANGED <<handler, exc_type, exc_text, paramVars, docVars, uploaded,
                   rendererVars, requestVars, s3Vars, closeVars, dimVars>>

(***************************************************************************)
(* The service: requests, shutdown and engine crashes interleave freely.   *)
(***************************************************************************)

\* no call of the parameter path has been made
InitParamIdle ==
    /\ entry = "direct"
    /\ arg_width = <<>>
    /\ arg_height = <<>>
    /\ arg_scale = <<>>
    /\ schema = "unchecked"
    /\ viewport = <<>>

\* no exception has reached the boundary
InitErrIdle ==
    /\ handler = "generate"
    /\ exc_type = "Exception"
    /\ exc_text = [r \in Runs |-> "Timeout 30000ms exceeded"]
    /\ payload = [r \in Runs |-> NoResult]

\* _build_html_document has not been called
InitDocIdle ==
    /\ arg_html = <<>>
    /\ arg_css = None
    /\ full_html = <<>>

\* _validate_dimensions has not been called
InitDimIdle ==
    /\ dims = <<default_width, default_height>>
    /\ validated = <<>>
    /\ warned = FALSE
    /\ revalidated = <<>>

\* none of the calls studied on their own has been made
InitCalls == InitParamIdle /\ InitDocIdle /\ uploaded = <<>> /\ InitErrIdle

InitService ==
    /\ _browser = NoHandle
    /\ _playwright = NoHandle
    /\ engines = <<>>
    /\ launchers = <<>>
    /\ pc = [p \in Procs |-> "idle"]
    /\ endpoint = [p \in Procs |-> "generate"]
    /\ response_format = [p \in Procs |-> "url"]
    /\ browser = [p \in Procs |-> NoHandle]
    /\ page = [p \in Procs |-> "none"]
    /\ events = [p \in Procs |-> <<>>]
    /\ result = [p \in Procs |-> NoResult]
    /\ bucket_name \in {"", "bucket"}
    /\ _client = None
    /\ closePc = "idle"
    /\ closeTarget = NoHandle
    /\ closeCalls = 0

Init ==
    /\ InitService
    /\ dims = <<default_width, default_height>>
    /\ validated = <<>>
    /\ warned = FALSE
    /\ revalidated = <<>>
    /\ InitCalls

Step(p) ==
    \/ \E ep \in Endpoints, rf \in ResponseFormat : Request(p, ep, rf)
    \/ PlaywrightStarted(p)
    \/ PlaywrightStartFails(p)
    \/ Launched(p)
    \/ LaunchFails(p)
    \/ NewPage(p)
    \/ NewPageFails(p)
    \/ SetContent(p)
    \/ SetContentFails(p)
    \/ ScreenshotFails(p)
    \/ Screenshot(p)
    \/ PageClosed(p)
    \/ Respond(p)

CloseStep == Close \/ BrowserClosed \/ PlaywrightStopped

Next ==
    \/ \E p \in Procs : Step(p)
    \/ CloseStep
    \/ \E b \in DOMAIN engines : Disconnect(b)

Spec == Init /\ [][Next]_vars

(***************************************************************************)
(* The same service with one coroutine at a time: a request or close()     *)
(* runs to its end before the next one starts.                             *)
(***************************************************************************)

Running(p) == pc[p] \notin {"idle", "returned"}

Alone(p) == closePc = "idle" /\ \A q \in Procs \ {p} : ~Running(q)

Quiet == \A q \in Procs : ~Running(q)

NextSeq ==
    \/ \E p \in Procs : Alone(p) /\ \E ep \in Endpoints, rf \in ResponseFormat : Request(p, ep, rf)
    \/ \E p \in Procs : Alone(p) /\ PlaywrightStarted(p)
    \/ \E p \in Procs : Alone(p) /\ PlaywrightStartFails(p)
    \/ \E p \in Procs : Alone(p) /\ Launched(p)
    \/ \E p \in Procs : Alone(p) /\ LaunchFails(p)
    \/ \E p \in Procs : Alone(p) /\ NewPage(p)
    \/ \E p \in Procs : Alone(p) /\ NewPageFails(p)
    \/ \E p \in Procs : Alone(p) /\ SetContent(p)
    \/ \E p \in Procs : Alone(p) /\ SetContentFails(p)
    \/ \E p \in Procs : Alone(p) /\ ScreenshotFails(p)
    \/ \E p \in Procs : Alone(p) /\ Screenshot(p)
    \/ \E p \in Procs : Alone(p) /\ PageClosed(p)
    \/ \E p \in Procs : Alone(p) /\ Respond(p)
    \/ Quiet /\ Close
    \/ Quiet /\ BrowserClosed
    \/ Quiet /\ PlaywrightStopped
    \/ \E b \in DOMAIN engines : Disconnect(b)

SpecSeq == Init /\ [][NextSeq]_vars

(***************************************************************************)
(* The storage side: the requests one at a time, and upload_bytes also     *)
(* called on its own between them.                                         *)
(***************************************************************************)

NextStore == NextSeq \/ UploadBytes

SpecStore == Init /\ [][NextStore]_vars

(***************************************************************************)
(* _validate_dimensions on its own, over the sampled pairs.                *)
(***************************************************************************)

InitDim ==
    /\ InitService
    /\ dims \in WidthValues \X HeightValues
    /\ validated = <<>>
    /\ warned = FALSE
    /\ revalidated = <<>>
    /\ InitCalls

NextDim == Validate \/ Revalidate

SpecDim == InitDim /\ [][NextDim]_vars

(***************************************************************************)
(* The numeric parameters of one rendering, asked for through the endpoint *)
(* or by a direct call of render_to_image, over the sampled values.        *)
(***************************************************************************)

InitParam ==
    /\ InitService
    /\ InitDimIdle
    /\ entry \in {"endpoint", "direct"}
    /\ arg_width \in SuppliedWidths
    /\ arg_height \in SuppliedHeights
    /\ arg_scale \in SuppliedScales
    /\ schema = "unchecked"
    /\ viewport = <<>>
    /\ InitDocIdle
    /\ uploaded = <<>>
    /\ InitErrIdle

NextParam == ValidateRequest \/ RenderFromHandler \/ RenderDirect

SpecParam == InitParam /\ [][NextParam]_vars

(***************************************************************************)
(* _build_html_document on its own, over the texts of up to MaxDocLen      *)
(* tokens and the three kinds of stylesheet.                               *)
(***************************************************************************)

InitDoc ==
    /\ InitService
    /\ InitDimIdle
    /\ InitParamIdle
    /\ arg_html \in Texts
    /\ arg_css \in Stylesheets
    /\ full_html = <<>>
    /\ uploaded = <<>>
    /\ InitErrIdle

NextDoc == BuildDocument

SpecDoc == InitDoc /\ [][NextDoc]_vars

(***************************************************************************)
(* Two runs of one request in which an exception reaches the boundary of   *)
(* the handler; the runs differ in the text of the exception at most.      *)
(***************************************************************************)

InitErr ==
    /\ InitService
    /\ InitDimIdle
    /\ InitParamIdle
    /\ InitDocIdle
    /\ uploaded = <<>>
    /\ handler \in Endpoints
    /\ exc_type \in {"HTTPException", "Exception"}
    /\ exc_text \in [Runs -> ErrorTexts]
    /\ payload = [r \in Runs |-> NoResult]

NextErr == \E r \in Runs : Catch(r)

SpecErr == InitErr /\ [][NextErr]_vars

(***************************************************************************)
(* Properties.                                                             *)
(***************************************************************************)

Range(seq) == {seq[i] : i \in DOMAIN seq}

Finished(p) == pc[p] = "done"

\* the step is the start of request p's handler
Arrives(p) == pc[p] = "idle" /\ pc'[p] # "idle"

\* the cached handle exists and its engine reports connected
CachedConnected == _browser # NoHandle /\ engines[_browser] = "connected"

StorageCalls == {"bucket_check", "upload_bytes", "get_client", "put_object"}

\* the capture returned its bytes to the handler
Captured(p) == "render_done" \in Range(events[p])

\* the storage step of the request failed: no bucket, or put_object raised
StorageFailed(p) ==
    /\ "bucket_check" \in Range(events[p])
    /\ \/ bucket_name = ""
       \/ Range(events[p]) \cap (PutOutcomes \ {"ok"}) # {}

\* C1: single-flight acquisition.  While no engine has been lost and close()
\* was never called, acquirers that overlap share one launch: at most one
\* engine has been launched in total and every coroutine that holds a handle
\* holds the cached one.
C1_SingleFlight ==
    (closeCalls = 0 /\ \A b \in DOMAIN engines : engines[b] = "connected")
        => /\ Len(engines) <= 1
           /\ \A p \in Procs : browser[p] # NoHandle => browser[p] = _browser

\* C2: no finished request has its page still open: every page opened by a
\* capture is closed by the time the capture returns or raises.
C2_PageDestroyed ==
    \A p \in Procs : pc[p] \in {"done", "returned"} => page[p] # "open"

\* C3 as stated: in mode "both", when the capture succeeded, the finished
\* request always carries the inline data, also when the storage step failed.
C3_PartialSuccess ==
    \A p \in Procs :
        (Finished(p) /\ response_format[p] = "both" /\ Captured(p))
            => result[p].base64 # None

\* C3 as amended: in mode "both", when the capture succeeded and the storage
\* step failed, the request ends in an HTTP 500 error payload that carries
\* neither inline data nor a URL.
C3_StorageFailureIsError ==
    \A p \in Procs :
        (Finished(p) /\ response_format[p] = "both" /\ Captured(p) /\ StorageFailed(p))
            => /\ ~result[p].success
               /\ result[p].status_code = 500
               /\ result[p].error = "HTTP_ERROR"
               /\ result[p].base64 = None
               /\ result[p].url = None

C3_Witness ==
    \E p \in Procs :
        /\ Finished(p) /\ response_format[p] = "both" /\ Captured(p) /\ StorageFailed(p)
        /\ "b64encode" \in Range(events[p])
        /\ result[p].status_code = 500

\* C4: a successful result populates exactly the fields its mode asks for:
\* "url" the URL alone, "base64" the inline data alone, "both" both.
C4_FieldsMatchMode ==
    \A p \in Procs :
        (Finished(p) /\ result[p].success)
            => /\ (result[p].url # None) <=> (response_format[p] \in {"url", "both"})
               /\ (result[p].base64 # None) <=> (response_format[p] \in {"base64", "both"})

C4_Witness ==
    \E p, q \in Procs :
        /\ Finished(p) /\ result[p].success /\ response_format[p] = "both"
        /\ result[p].url = PublicUrl /\ result[p].base64 = InlineData
        /\ pc[q] = "returned"

\* C5: for every request the capture is invoked exactly once, and every
\* storage call or bucket check comes after the capture has returned.
C5_CaptureOnceFirst ==
    \A p \in Procs :
        LET ev == events[p] IN
        /\ pc[p] \notin {"idle", "returned"}
             => Cardinality({i \in DOMAIN ev : ev[i] = "render_to_image"}) = 1
        /\ \A i \in DOMAIN ev :
             ev[i] \in StorageCalls => \E j \in 1..(i - 1) : ev[j] = "render_done"

C5_Witness ==
    \E p \in Procs :
        /\ Finished(p)
        /\ response_format[p] = "both"
        /\ "put_object" \in Range(events[p])
        /\ "EndpointConnectionError" \in Range(events[p])

\* C6: while the cached handle reports connected, an acquisition returns that
\* handle and launches nothing; the number of engines launched changes only
\* when the cached handle is absent or not connected.
C6_IdempotentWhileHealthy ==
    [][/\ \A p \in Procs :
            (Arrives(p) /\ CachedConnected)
                => /\ pc'[p] = "new_page"
                   /\ browser'[p] = _browser
                   /\ UNCHANGED rendererVars
       /\ Len(engines') # Len(engines) => ~CachedConnected]_vars

C6_Witness ==
    \E p, q \in Procs :
        /\ pc[q] = "returned" /\ page[q] = "closed"
        /\ pc[p] = "new_page" /\ browser[p] = _browser
        /\ engines = <<"connected">>
        /\ Len(launchers) = 1

\* C7: an acquisition that finds the cached engine disconnected never hands
\* it out: it goes on to launch, and the launch leaves a fresh, connected
\* engine cached and returned.
C7_SelfHealing ==
    [][\A p \in Procs :
        /\ (Arrives(p) /\ _browser # NoHandle /\ engines[_browser] # "connected")
              => pc'[p] = "playwright_start" /\ browser'[p] = NoHandle
        /\ (pc[p] = "launch" /\ pc'[p] = "new_page")
              => /\ _browser' \notin DOMAIN engines
                 /\ engines'[_browser'] = "connected"
                 /\ browser'[p] = _browser'
                 /\ \A b \in DOMAIN engines : engines'[b] = engines[b]]_vars

\* the engine was lost, nobody called close(), and a later request succeeded
\* on a fresh engine
C7_Witness ==
    \E p \in Procs :
        /\ engines = <<"disconnected", "connected">>
        /\ closeCalls = 0
        /\ Finished(p) /\ result[p].success /\ browser[p] = 2 /\ _browser = 2

\* C8: close() closes the cached engine and stops the launcher and returns
\* with both handles cleared; with nothing cached it returns at once, calling
\* neither; an acquisition after it launches.
C8_Close ==
    [][/\ (closeCalls' # closeCalls /\ _browser = NoHandle /\ _playwright = NoHandle)
            => closePc' = "idle" /\ UNCHANGED rendererVars
       /\ (closeCalls' # closeCalls /\ _browser # NoHandle)
            => closePc' = "browser_close" /\ closeTarget' = _browser
       /\ (closePc = "browser_close" /\ closePc' # "browser_close")
            => engines'[closeTarget] = "closed"
       /\ (closePc = "playwright_stop" /\ closePc' # "playwright_stop")
            => launchers'[closeTarget] = "stopped"
       /\ ((closeCalls' # closeCalls \/ closePc' # closePc) /\ closePc' = "idle")
            => _browser' = NoHandle /\ _playwright' = NoHandle
       /\ \A p \in Procs :
            (Arrives(p) /\ _browser = NoHandle) => pc'[p] = "playwright_start"]_vars

\* close() ran, a second close() found nothing to do, and the next request
\* launched a fresh engine
C8_Witness ==
    /\ closeCalls = 2 /\ closePc = "idle"
    /\ engines = <<"closed", "connected">>
    /\ launchers = <<"stopped", "running">>
    /\ _browser = 2

\* C9: a request that fails in new_page, in the load or in the screenshot
\* leaves the cached engine and launcher as they were, and a request that
\* arrives while that engine is connected takes the same handle and launches
\* nothing.
C9_FailureKeepsEngine ==
    [][\A p \in Procs :
        /\ (pc[p] \in {"new_page", "set_content", "screenshot"} /\ pc'[p] = "done")
              => UNCHANGED rendererVars
        /\ (Arrives(p) /\ CachedConnected)
              => browser'[p] = _browser /\ UNCHANGED rendererVars]_vars

\* a request failed with its page open, and the next one holds the same engine
C9_Witness ==
    \E p, q \in Procs :
        /\ pc[q] = "returned" /\ page[q] = "open"
        /\ pc[p] = "set_content" /\ browser[p] = 1 /\ _browser = 1
        /\ engines = <<"connected">>

\* C10: _validate_dimensions returns each value clamped to [1, max]: a value
\* in range comes back unchanged, a smaller one as 1, a larger one as the
\* maximum; the warning is logged exactly when a value changed; validating
\* the returned pair again returns it unchanged without a warning.
C10_Clamp ==
    /\ validated # <<>> =>
         /\ validated[1] \in min_dimension..max_width
         /\ validated[2] \in min_dimension..max_height
         /\ dims[1] \in min_dimension..max_width => validated[1] = dims[1]
         /\ dims[2] \in min_dimension..max_height => validated[2] = dims[2]
         /\ dims[1] < min_dimension => validated[1] = min_dimension
         /\ dims[2] < min_dimension => validated[2] = min_dimension
         /\ dims[1] > max_width => validated[1] = max_width
         /\ dims[2] > max_height => validated[2] = max_height
         /\ warned <=> (validated # dims)
    /\ revalidated # <<>> => revalidated = <<validated[1], validated[2], FALSE>>

C10_Witness ==
    /\ dims[1] > max_width /\ dims[2] < min_dimension
    /\ validated = <<max_width, min_dimension>>
    /\ warned
    /\ revalidated = <<max_width, min_dimension, FALSE>>

\* the value supplied for a field lies outside [ge, le]
Oversize(value, le) == value # <<>> /\ value[1] > le
Supplied(value, default) == IF value = <<>> THEN default ELSE value[1]

\* C11 as stated: a render-and-deliver request whose width or height exceeds
\* the configured maximum is not rejected; it goes on to the capture with the
\* dimension clamped to the maximum.
C11_OversizeProceeds ==
    (/\ entry = "endpoint"
     /\ Oversize(arg_width, max_width) \/ Oversize(arg_height, max_height)
     /\ schema # "unchecked")
        => /\ schema = "accepted"
           /\ viewport # <<>> =>
                /\ Oversize(arg_width, max_width) => viewport.width = max_width
                /\ Oversize(arg_height, max_height) => viewport.height = max_height

\* C11 amended: such a request is refused by the request schema before the
\* handler runs, so nothing is captured; a request that does reach the capture
\* arrives with exactly the dimensions it carried and no adjustment warning.
C11_OversizeRejected ==
    /\ (/\ entry = "endpoint"
        /\ Oversize(arg_width, max_width) \/ Oversize(arg_height, max_height))
          => schema \in {"unchecked", "rejected"} /\ viewport = <<>>
    /\ (entry = "endpoint" /\ viewport # <<>>)
          => /\ schema = "accepted"
             /\ viewport.width = Supplied(arg_width, default_width)
             /\ viewport.height = Supplied(arg_height, default_height)
             /\ ~viewport.warning

C11_Witness ==
    /\ entry = "endpoint"
    /\ Oversize(arg_width, max_width)
    /\ ~Oversize(arg_height, max_height)
    /\ schema = "rejected"

\* the argument is missing or zero: what Python's `or` takes for absent
Falsy(value) == value = <<>> \/ value[1] = 0
OutOfRange(value, le) == ~Falsy(value) /\ (value[1] < min_dimension \/ value[1] > le)
Changed(value, used) == value # <<>> /\ value[1] # used

\* C12 as stated: whatever width, height and scale render_to_image is given,
\* the viewport of the page has width and height in [1, max], the device scale
\* factor is in [0.1, 3.0], and every supplied value that was adjusted comes
\* with a warning.
C12_AllClamped ==
    viewport # <<>> =>
        /\ viewport.width \in min_dimension..max_width
        /\ viewport.height \in min_dimension..max_height
        /\ viewport.device_scale_factor \in scale_ge..scale_le
        /\ (\/ Changed(arg_width, viewport.width)
            \/ Changed(arg_height, viewport.height)
            \/ Changed(arg_scale, viewport.device_scale_factor)) => viewport.warning

\* C12 amended: width and height always reach the engine within [1, max]; a
\* missing or zero one is replaced by its default without a warning, any
\* other one outside the range is clamped with a warning.  The scale is not
\* clamped: missing or zero becomes the default, every other value reaches
\* the engine as supplied, and only the request schema keeps it in [0.1, 3.0].
C12_DimensionsClamped ==
    viewport # <<>> =>
        /\ viewport.width \in min_dimension..max_width
        /\ viewport.height \in min_dimension..max_height
        /\ Falsy(arg_width) => viewport.width = default_width
        /\ Falsy(arg_height) => viewport.height = default_height
        /\ viewport.warning <=>
             OutOfRange(arg_width, max_width) \/ OutOfRange(arg_height, max_height)
        /\ viewport.device_scale_factor =
             IF Falsy(arg_scale) THEN default_scale ELSE arg_scale[1]
        /\ entry = "endpoint" => viewport.device_scale_factor \in scale_ge..scale_le

C12_Witness ==
    /\ entry = "direct"
    /\ arg_width = <<0>>
    /\ arg_scale = <<scale_le + 1>>
    /\ viewport # <<>>
    /\ viewport.device_scale_factor > scale_le
    /\ ~viewport.warning

\* what the sentences about composing call the markers of a document
IsDoctype(t) == t = "<!DOCTYPE html>"
IsRootOpening(t) == t \in {"<html>", "<HTML>", "<html lang='en'>"}
IsClosingHead(t) == t \in {"</head>", "</HEAD>"}
CompleteDocument(text) == \E i \in DOMAIN text : IsDoctype(text[i]) \/ IsRootOpening(text[i])
HasStylesheet == arg_css \notin {None, ""}
StyleBlock == <<"<style>", arg_css, "</style>">>
SynthesizedHead == <<"<head>">> \o StyleBlock \o <<"</head>">>

\* the text with `inserted` put after its first k tokens
InsertAfter(text, k, inserted) ==
    SubSeq(text, 1, k) \o inserted \o SubSeq(text, k + 1, Len(text))

\* the position of the first token of the text that satisfies Is
First(text, Is(_)) ==
    CHOOSE i \in DOMAIN text : Is(text[i]) /\ \A k \in 1..(i - 1) : ~Is(text[k])

StyleBlocks(text) == Cardinality({i \in DOMAIN text : text[i] = "<style>"})

\* C13 as stated: for a complete document and a non-empty CSS the output is
\* the input with exactly one style block inserted, immediately before the
\* first closing head marker if there is one, otherwise inside a synthesized
\* head right after the root element opening; nothing else changes and the
\* CSS is never dropped.
C13_CssInserted ==
    (full_html # <<>> /\ CompleteDocument(arg_html) /\ HasStylesheet) =>
        /\ StyleBlocks(full_html) = StyleBlocks(arg_html) + 1
        /\ IF \E i \in DOMAIN arg_html : IsClosingHead(arg_html[i])
           THEN full_html =
                  InsertAfter(arg_html, First(arg_html, IsClosingHead) - 1, StyleBlock)
           ELSE IF \E i \in DOMAIN arg_html : IsRootOpening(arg_html[i])
           THEN full_html =
                  InsertAfter(arg_html, First(arg_html, IsRootOpening), SynthesizedHead)
           ELSE \E k \in 0..Len(arg_html) :
                  full_html = InsertAfter(arg_html, k, SynthesizedHead)

StorageClientCalls == {"upload_bytes", "get_client", "put_object"}
Count(seq, x) == Cardinality({i \in DOMAIN seq : seq[i] = x})

\* C15: with no bucket configured upload_bytes raises the not-configured
\* error before the client is created and before any put_object, and the
\* cached client stays as it was; a generate request in mode "url" or "both"
\* then ends in an error, and has made no storage call.
C15_NoBucketFailsFast ==
    bucket_name = "" =>
        /\ uploaded # <<>> =>
             /\ uploaded.raised = "ValueError"
             /\ uploaded.url = None
             /\ uploaded.calls = <<>>
             /\ uploaded.client_after = uploaded.client_before
        /\ _client = None
        /\ \A p \in Procs :
             (Finished(p) /\ endpoint[p] = "generate" /\ response_format[p] \in {"url", "both"})
                => /\ ~result[p].success
                   /\ result[p].status_code = 500
                   /\ result[p].url = None
                   /\ Range(events[p]) \cap StorageClientCalls = {}

C15_Witness ==
    /\ bucket_name = ""
    /\ uploaded # <<>>
    /\ \E p \in Procs :
         /\ Finished(p)
         /\ Captured(p)
         /\ endpoint[p] = "generate"
         /\ response_format[p] = "url"

\* C16: an upload makes exactly one put_object attempt and returns a URL only
\* when that attempt succeeded; when it failed, the upload raises the error
\* put_object raised and returns nothing, and put_object is not tried again.
C16_OnePutNoRetry ==
    /\ (uploaded # <<>> /\ bucket_name # "") =>
          /\ Count(uploaded.calls, "put_object") = 1
          /\ uploaded.url # None <=> uploaded.raised = None
          /\ uploaded.url # None => uploaded.calls[Len(uploaded.calls)] = "ok"
          /\ \A e \in PutOutcomes \ {"ok"} :
               e \in Range(uploaded.calls) => uploaded.raised = e /\ uploaded.url = None
    /\ \A p \in Procs :
          /\ Count(events[p], "put_object") <= 1
          /\ (Finished(p) /\ result[p].url # None)
                => /\ Count(events[p], "put_object") = 1
                   /\ events[p][Len(events[p])] = "ok"

C16_Witness ==
    /\ uploaded # <<>>
    /\ uploaded.raised = "ClientError"
    /\ uploaded.calls = <<"get_client", "put_object", "ClientError">>
    /\ uploaded.url = None

\* what a preview request has called, and what it answers
C17_NoStorageCalls ==
    \A p \in Procs :
        endpoint[p] = "preview" =>
            /\ Range(events[p]) \cap (StorageClientCalls \cup {"bucket_check"}) = {}
            /\ (Finished(p) /\ result[p].success) =>
                  /\ result[p].base64 # None
                  /\ result[p].url = None
            /\ (Finished(p) /\ Captured(p)) => result[p].success

\* C17: a preview request never touches storage, whatever its format and
\* whether or not a bucket is configured: it makes no storage call, leaves the
\* storage client as it was, and when it succeeds it carries the inline data
\* and no URL.
C17_PreviewSkipsStorage ==
    /\ []C17_NoStorageCalls
    /\ [][\A p \in Procs :
             (endpoint[p] = "preview" /\ pc[p] # "idle" /\ pc'[p] # pc[p])
                => _client' = _client]_vars

C17_Witness ==
    \E p \in Procs :
        /\ endpoint[p] = "preview"
        /\ Finished(p)
        /\ result[p].success
        /\ bucket_name = "bucket"

\* C18: the payload answered for an unclassified exception does not depend
\* on the text of the exception: two runs of one request that fail with
\* exceptions differing in their text only answer the same payload, a generic
\* internal error.
C18_GenericError ==
    (exc_type = "Exception" /\ \A r \in Runs : payload[r] # NoResult)
        => \A r1, r2 \in Runs : payload[r1] = payload[r2]

\* close() has run to its end and nothing was acquired since
ClosedDown ==
    /\ closeCalls > 0
    /\ closePc = "idle"
    /\ \A p \in Procs : pc[p] \in {"idle", "returned"}
    /\ _browser = NoHandle
    /\ _playwright = NoHandle

\* C19: nothing is orphaned.  Once close() has returned, every launcher that
\* was ever started has been stopped and every engine that was ever launched
\* is closed or disconnected, whatever acquisitions, disconnects and failed
\* launches came before.
C19_NoOrphans ==
    ClosedDown =>
        /\ \A l \in DOMAIN launchers : launchers[l] = "stopped"
        /\ \A b \in DOMAIN engines : engines[b] \in {"closed", "disconnected"}

====
